---- MODULE Spec2Model ----
(***************************************************************************)
(* LED night light (dJPoida/led_night_light): the button decoder, the      *)
(* persisted selection, the phase timer and the LED graduator of           *)
(* src/arduino/led_night_light/led_night_light.ino as a state machine.     *)
(***************************************************************************)
EXTENDS Integers, Sequences, FiniteSets, TLC

(***************************************************************************)
(* Bounds of the model.                                                    *)
(***************************************************************************)
\* width in bits of the millis() counter (32 on the target, scaled down)
ClockBits == 16
\* the clock stops advancing this many milliseconds after a boot
MaxTime == 204
\* number of power losses in one behaviour
MaxBoots == 1
\* the clock stops advancing this many milliseconds after a restart
MaxRebootTime == 51
\* length at which the episode log is cut
MaxLog == 6
\* a long-running sketch is observed from this many milliseconds before the
\* millis() counter wraps
WrapLead == 60

\* the clock stops advancing after this many milliseconds when the iterations
\* of loop() are about one frame interval apart
MaxFrameTime == 60

\* the clock stops advancing after this many milliseconds when whole debounce
\* intervals pass between the iterations of loop(): six accepted transitions
MaxComboTime == 306

\* time between two iterations of loop() when whole debounce intervals pass
ComboSteps == {0, 51}

\* milliseconds that may pass between two iterations of loop()
TimeSteps == {0, 50, 51}

\* the same around the frame interval: 8 ms is within it, 9 ms is past it, and
\* 43 + 8 ms is past the debounce delay
FrameSteps == {8, 9, 43}

(***************************************************************************)
(* Configuration (#define) and tables.                                     *)
(***************************************************************************)
DEBOUNCE_DELAY == 50
NUM_LEDS == 10
\* LED_UPDATE_DELAY is 8.3333 ms; kept in units of 1/10000 ms
LED_UPDATE_DELAY == 83333
LED_COLOR_GRADUATION == 1
PHASE_DURATION == 1000
MODECOUNT == 3
MODE_UNIFIED == 0
MODE_COMPLEMENTARY == 1
MODE_RAIN == 2
NUM_COLORS == 8
COMPLEMENTARY_FRONT == 0
COMPLEMENTARY_REAR == 1

RGB(r, g, b) == [r |-> r, g |-> g, b |-> b]

Btns == 0 .. 1
LEDs == 0 .. (NUM_LEDS - 1)
Black == RGB(0, 0, 0)

brightnessValues == [i \in 0 .. 4 |->
    CASE i = 0 -> 50 [] i = 1 -> 90 [] i = 2 -> 130 [] i = 3 -> 180 [] i = 4 -> 220]

colors == [i \in 0 .. (NUM_COLORS - 1) |->
    CASE i = 0 -> RGB(255, 255, 255)
      [] i = 1 -> RGB(255, 127, 0)
      [] i = 2 -> RGB(255, 225, 0)
      [] i = 3 -> RGB(127, 255, 0)
      [] i = 4 -> RGB(0, 255, 255)
      [] i = 5 -> RGB(127, 0, 255)
      [] i = 6 -> RGB(230, 30, 110)
      [] i = 7 -> RGB(255, 60, 40)]

complementary_colors == [i \in 0 .. (NUM_COLORS - 1) |->
    CASE i = 0 -> colors[4]
      [] i = 1 -> colors[2]
      [] i = 2 -> colors[7]
      [] i = 3 -> colors[2]
      [] i = 4 -> colors[0]
      [] i = 5 -> colors[6]
      [] i = 6 -> colors[5]
      [] i = 7 -> colors[1]]

complementary_LED_map == [i \in LEDs |->
    IF i \in {0, 1, 2, 9} THEN COMPLEMENTARY_FRONT ELSE COMPLEMENTARY_REAR]

rain_phase_LED_map == [i \in LEDs |->
    CASE i \in {0, 5, 6, 9} -> 0
      [] i \in {2, 3, 8} -> 1
      [] i \in {1, 4, 7} -> 2]

(***************************************************************************)
(* Machine arithmetic.                                                     *)
(***************************************************************************)
RECURSIVE Pow2(_)
Pow2(n) == IF n = 0 THEN 1 ELSE 2 * Pow2(n - 1)

\* unsigned long arithmetic of the millis() counter
ClockMod == Pow2(ClockBits)
Elapsed_noWrap(currentMillis, since) == currentMillis - since

Elapsed(currentMillis, since) == (currentMillis - since) % ClockMod

\* conversion to byte
Byte(x) == x % 256

\* what a read past the end of a table may return
UBBytes == {0, 255}
UBColors == {RGB(x, y, x) : x, y \in UBBytes}

BrightnessAt(level) ==
    IF level \in DOMAIN brightnessValues THEN {brightnessValues[level]} ELSE UBBytes
ColorAt(index) ==
    IF index \in DOMAIN colors THEN {colors[index]} ELSE UBColors
ComplementaryAt(index) ==
    IF index \in DOMAIN complementary_colors THEN {complementary_colors[index]} ELSE UBColors

(***************************************************************************)
(* State.                                                                  *)
(***************************************************************************)
VARIABLES
    pc,                   \* "boot", "checkButtons", "updatePhase", "updateLEDs", "graduate"
    boots,                \* power losses so far
    now,                  \* millis()
    eeprom,               \* EEPROM bytes at addresses 0 .. 2
    btnState, lastBtnState, btnPressHandled, lastBtnDebounceTime, btnDownStart,
    lastLEDUpdate, lastPhaseChange,
    currentMode, inputBrightnessLevel, targetBrightness, actualBrightness,
    currentColorIndex, targetColor, actualColor, currentRainPhase,
    frame,                \* strip calls made by the latest updateLEDs()
    tickEvents,           \* transitions and actions of the latest checkButtons()
    log,                  \* transitions and actions since both buttons were last up
    prevLog,              \* the log of the episode before that
    held                  \* the selection at the latest power loss

btnVars == <<btnState, lastBtnState, btnPressHandled, lastBtnDebounceTime, btnDownStart>>
selVars == <<currentMode, inputBrightnessLevel, currentColorIndex>>
ledVars == <<targetColor, actualColor, actualBrightness, lastLEDUpdate, frame>>
vars == <<pc, boots, now, eeprom, btnVars, selVars, ledVars, targetBrightness,
          lastPhaseChange, currentRainPhase, tickEvents, log, prevLog, held>>

(***************************************************************************)
(* Observation of the decoder: accepted transitions and emitted actions.   *)
(***************************************************************************)
BtnEvent(btnNumber, newState) ==
    CASE btnNumber = 0 /\ newState = 1 -> "A_DOWN"
      [] btnNumber = 0 /\ newState = 0 -> "A_UP"
      [] btnNumber = 1 /\ newState = 1 -> "B_DOWN"
      [] btnNumber = 1 /\ newState = 0 -> "B_UP"

TransitionEvents == {"A_DOWN", "A_UP", "B_DOWN", "B_UP"}
ActionEvents == {"CycleColor", "CycleMode", "IncreaseBrightness"}
AllUp == [i \in Btns |-> 0]

IsTransition(e) == e \in TransitionEvents
IsAction(e) == e \in ActionEvents
Transitions(events) == SelectSeq(events, IsTransition)
Actions(events) == SelectSeq(events, IsAction)

\* the log is cut at MaxLog entries and marked
LogAppend(events, e) ==
    IF Len(events) < MaxLog THEN Append(events, e)
    ELSE [events EXCEPT ![MaxLog] = "TRUNCATED"]

\* a transition accepted while both buttons are up starts a new episode
Observe(s, e) ==
    [s EXCEPT !.tickEvents = Append(@, e),
              !.log = IF IsTransition(e) /\ s.btnState = AllUp
                      THEN <<e>> ELSE LogAppend(@, e),
              !.prevLog = IF IsTransition(e) /\ s.btnState = AllUp
                          THEN s.log ELSE @]

(***************************************************************************)
(* Persistence: saveState(), and the per-field decision of loadState().    *)
(***************************************************************************)
saveState_skipColor(s) ==
    [s EXCEPT !.eeprom = [a \in 0 .. 2 |->
        CASE a = 0 -> Byte(s.currentMode)
          [] a = 1 -> Byte(s.inputBrightnessLevel)
          [] a = 2 -> s.eeprom[2]]]

saveState(s) ==
    [s EXCEPT !.eeprom = [a \in 0 .. 2 |->
        CASE a = 0 -> Byte(s.currentMode)
          [] a = 1 -> Byte(s.inputBrightnessLevel)
          [] a = 2 -> Byte(s.currentColorIndex)]]

loadByte_sentinelZero(stored, current) == IF stored = 0 THEN current ELSE stored

loadByte(stored, current) == IF stored = 255 THEN current ELSE stored

(***************************************************************************)
(* The three cycling operations.                                           *)
(***************************************************************************)
nextBrightness(level) ==
    LET newBrightness == Byte(level + 1)
    IN  IF newBrightness > 4 THEN 0 ELSE newBrightness

nextMode(mode) ==
    LET newMode == Byte(mode + 1)
    IN  IF newMode >= MODECOUNT THEN 0 ELSE newMode

nextColorIndex_offByOne(index) ==
    LET newColorIndex == Byte(index + 1)
    IN  IF newColorIndex > NUM_COLORS THEN 0 ELSE newColorIndex

nextColorIndex(index) ==
    LET newColorIndex == Byte(index + 1)
    IN  IF newColorIndex >= NUM_COLORS THEN 0 ELSE newColorIndex

incBrightness_touchColor(s) ==
    LET level == nextBrightness(s.inputBrightnessLevel)
    IN  saveState(Observe([s EXCEPT !.inputBrightnessLevel = level,
                                    !.targetBrightness = brightnessValues[level],
                                    !.currentColorIndex = nextColorIndex(@)],
                          "IncreaseBrightness"))

incBrightness(s) ==
    LET level == nextBrightness(s.inputBrightnessLevel)
    IN  saveState(Observe([s EXCEPT !.inputBrightnessLevel = level,
                                    !.targetBrightness = brightnessValues[level]],
                          "IncreaseBrightness"))

cycleMode_noSave(s) ==
    Observe([s EXCEPT !.currentMode = nextMode(@)], "CycleMode")

cycleMode(s) ==
    saveState(Observe([s EXCEPT !.currentMode = nextMode(@)], "CycleMode"))

cycleColor(s) ==
    saveState(Observe([s EXCEPT !.currentColorIndex = nextColorIndex(@)], "CycleColor"))

(***************************************************************************)
(* btnStateChange(): the combo grammar.                                    *)
(***************************************************************************)
\* which branch of the release handler is taken
releaseAction_ignoreHandled(btnNumber, state, handled) ==
    IF btnNumber = 0 /\ state[1] = 0 THEN "cycleColor"
    ELSE IF btnNumber = 1 /\ state[0] = 0 /\ handled[1] = 0 THEN "cycleMode"
    ELSE IF btnNumber = 1 /\ state[0] = 1 /\ handled[1] = 0 THEN "incBrightness"
    ELSE "none"

releaseAction_ignoreOther(btnNumber, state, handled) ==
    IF btnNumber = 0 /\ handled[0] = 0 THEN "cycleColor"
    ELSE IF btnNumber = 1 /\ state[0] = 0 /\ handled[1] = 0 THEN "cycleMode"
    ELSE IF btnNumber = 1 /\ state[0] = 1 /\ handled[1] = 0 THEN "incBrightness"
    ELSE "none"

releaseAction_swapped(btnNumber, state, handled) ==
    IF btnNumber = 0 /\ state[1] = 0 /\ handled[0] = 0 THEN "cycleColor"
    ELSE IF btnNumber = 1 /\ state[0] = 1 /\ handled[1] = 0 THEN "cycleMode"
    ELSE IF btnNumber = 1 /\ state[0] = 0 /\ handled[1] = 0 THEN "incBrightness"
    ELSE "none"

releaseAction(btnNumber, state, handled) ==
    IF btnNumber = 0 /\ state[1] = 0 /\ handled[0] = 0 THEN "cycleColor"
    ELSE IF btnNumber = 1 /\ state[0] = 0 /\ handled[1] = 0 THEN "cycleMode"
    ELSE IF btnNumber = 1 /\ state[0] = 1 /\ handled[1] = 0 THEN "incBrightness"
    ELSE "none"

btnDown_keepFlag(s, btnNumber, currentMillis) ==
    [s EXCEPT !.btnDownStart[btnNumber] = currentMillis]

btnDown_handled(s, btnNumber, currentMillis) ==
    [s EXCEPT !.btnDownStart[btnNumber] = currentMillis,
              !.btnPressHandled[btnNumber] = 1]

btnDown(s, btnNumber, currentMillis) ==
    [s EXCEPT !.btnDownStart[btnNumber] = currentMillis,
              !.btnPressHandled[btnNumber] = 0]

btnUp(s, btnNumber) ==
    LET s1 == [s EXCEPT !.btnDownStart[btnNumber] = 0]
        branch == releaseAction(btnNumber, s1.btnState, s1.btnPressHandled)
    IN  CASE branch = "cycleColor" -> cycleColor(s1)
          [] branch = "cycleMode" -> cycleMode(s1)
          [] branch = "incBrightness" ->
                incBrightness([s1 EXCEPT !.btnPressHandled[0] = 1])
          [] OTHER -> s1

btnStateChange(s, btnNumber, newState, currentMillis) ==
    LET s1 == [Observe(s, BtnEvent(btnNumber, newState))
                  EXCEPT !.btnState[btnNumber] = newState]
    IN  IF newState = 1 THEN btnDown(s1, btnNumber, currentMillis)
        ELSE btnUp(s1, btnNumber)

(***************************************************************************)
(* checkButtons(): debounce of one button, then the pass over both.        *)
(***************************************************************************)
checkButton_atDelay(s, i, btnReading, currentMillis) ==
    LET s1 == IF btnReading # s.lastBtnState[i]
              THEN [s EXCEPT !.lastBtnDebounceTime[i] = currentMillis]
              ELSE s
        s2 == IF /\ Elapsed(currentMillis, s1.lastBtnDebounceTime[i]) >= DEBOUNCE_DELAY
                 /\ btnReading # s1.btnState[i]
              THEN btnStateChange(s1, i, btnReading, currentMillis)
              ELSE s1
    IN  [s2 EXCEPT !.lastBtnState[i] = btnReading]

checkButton(s, i, btnReading, currentMillis) ==
    LET s1 == IF btnReading # s.lastBtnState[i]
              THEN [s EXCEPT !.lastBtnDebounceTime[i] = currentMillis]
              ELSE s
        s2 == IF /\ Elapsed(currentMillis, s1.lastBtnDebounceTime[i]) > DEBOUNCE_DELAY
                 /\ btnReading # s1.btnState[i]
              THEN btnStateChange(s1, i, btnReading, currentMillis)
              ELSE s1
    IN  [s2 EXCEPT !.lastBtnState[i] = btnReading]

checkButtons(s, reading, currentMillis) ==
    checkButton(checkButton(s, 0, reading[0], currentMillis), 1, reading[1], currentMillis)

(***************************************************************************)
(* updatePhase().                                                          *)
(***************************************************************************)
phaseDue_anyMode(mode, currentMillis, since) ==
    Elapsed(currentMillis, since) > PHASE_DURATION

phaseDue(mode, currentMillis, since) ==
    mode = MODE_RAIN /\ Elapsed(currentMillis, since) > PHASE_DURATION

nextRainPhase(phase) ==
    LET p == Byte(phase + 1) IN IF p > 2 THEN 0 ELSE p

(***************************************************************************)
(* updateLEDs(): the mode engine.                                          *)
(***************************************************************************)
halfway_roundUp(a, b) ==
    IF a < b THEN a + ((b - a + 1) \div 2)
    ELSE IF a > b THEN b + ((a - b + 1) \div 2)
    ELSE a

halfway(a, b) ==
    IF a < b THEN a + ((b - a) \div 2)
    ELSE IF a > b THEN b + ((a - b) \div 2)
    ELSE a

halfwayBetweenColors(A, B) ==
    [r |-> halfway(A.r, B.r), g |-> halfway(A.g, B.g), b |-> halfway(A.b, B.b)]

frameDue_eight(currentMillis, since) ==
    Elapsed(currentMillis, since) * 10000 > LED_UPDATE_DELAY - 10000

frameDue(currentMillis, since) ==
    Elapsed(currentMillis, since) * 10000 > LED_UPDATE_DELAY

rainTarget_noWrap(i, phase, base, comp, old) ==
    LET primaryPhase == phase
        secondaryPhase == Byte(phase + 1)
        tertiaryPhase == Byte(phase + 2)
    IN  IF rain_phase_LED_map[i] = primaryPhase THEN base
        ELSE IF rain_phase_LED_map[i] = secondaryPhase THEN halfwayBetweenColors(base, comp)
        ELSE IF rain_phase_LED_map[i] = tertiaryPhase THEN comp
        ELSE old

rainTarget(i, phase, base, comp, old) ==
    LET primaryPhase == phase
        secondaryPhase == IF Byte(phase + 1) > 2 THEN Byte(phase + 1) - 3 ELSE Byte(phase + 1)
        tertiaryPhase == IF Byte(phase + 2) > 2 THEN Byte(phase + 2) - 3 ELSE Byte(phase + 2)
    IN  IF rain_phase_LED_map[i] = primaryPhase THEN base
        ELSE IF rain_phase_LED_map[i] = secondaryPhase THEN halfwayBetweenColors(base, comp)
        ELSE IF rain_phase_LED_map[i] = tertiaryPhase THEN comp
        ELSE old

\* the target of LED i; a mode outside the switch leaves it as it was
modeTarget(mode, i, phase, base, comp, old) ==
    CASE mode = MODE_UNIFIED -> base
      [] mode = MODE_COMPLEMENTARY ->
            IF complementary_LED_map[i] = COMPLEMENTARY_FRONT THEN base ELSE comp
      [] mode = MODE_RAIN -> rainTarget(i, phase, base, comp, old)
      [] OTHER -> old

(***************************************************************************)
(* updateLEDs(): the graduator.                                            *)
(***************************************************************************)
constrain(amt, low, high) ==
    IF amt < low THEN low ELSE IF amt > high THEN high ELSE amt

graduateChannel_noClamp(actual, target) ==
    IF actual < target THEN actual + 2
    ELSE IF actual > target THEN actual - 2
    ELSE actual

graduateChannel(actual, target) ==
    IF actual < target THEN constrain(actual + LED_COLOR_GRADUATION, 0, target)
    ELSE IF actual > target THEN constrain(actual - LED_COLOR_GRADUATION, target, 255)
    ELSE actual

graduateColor_oneChannel(actual, target) ==
    IF actual.r # target.r
    THEN [actual EXCEPT !.r = Byte(graduateChannel(actual.r, target.r))]
    ELSE IF actual.g # target.g
    THEN [actual EXCEPT !.g = Byte(graduateChannel(actual.g, target.g))]
    ELSE IF actual.b # target.b
    THEN [actual EXCEPT !.b = Byte(graduateChannel(actual.b, target.b))]
    ELSE actual

graduateColor(actual, target) ==
    IF actual.r # target.r \/ actual.g # target.g \/ actual.b # target.b
    THEN [r |-> Byte(graduateChannel(actual.r, target.r)),
          g |-> Byte(graduateChannel(actual.g, target.g)),
          b |-> Byte(graduateChannel(actual.b, target.b))]
    ELSE actual

graduateBrightness(actual, target) ==
    IF target # actual
    THEN Byte(IF actual < target
              THEN constrain(actual + LED_COLOR_GRADUATION, 0, target)
              ELSE constrain(actual - LED_COLOR_GRADUATION, target, 255))
    ELSE actual

\* the strip calls of one graduation: setPixelColor, setBrightness, show
stripCalls_alwaysShow(actual, target, brightness, brightnessTarget) ==
    LET pixels == {i \in LEDs : actual[i] # target[i]}
        dimmed == brightnessTarget # brightness
    IN  [pixels |-> pixels, brightness |-> dimmed, show |-> TRUE]

stripCalls(actual, target, brightness, brightnessTarget) ==
    LET pixels == {i \in LEDs : actual[i] # target[i]}
        dimmed == brightnessTarget # brightness
    IN  [pixels |-> pixels, brightness |-> dimmed, show |-> (pixels # {} \/ dimmed)]

NoCalls == [pixels |-> {}, brightness |-> FALSE, show |-> FALSE]

(***************************************************************************)
(* Initial state: the static initialisers of the sketch, before setup().   *)
(***************************************************************************)
Store(b0, b1, b2) == [a \in 0 .. 2 |-> CASE a = 0 -> b0 [] a = 1 -> b1 [] a = 2 -> b2]

\* EEPROM contents at first power-up: erased, or selections written earlier
InitStores == {Store(255, 255, 255), Store(255, 2, 6), Store(2, 4, 7)}

\* EEPROM contents left behind by anything else
AnyStores == InitStores \cup {Store(200, 255, 255), Store(3, 5, 8)}

StaticInit ==
    [btnState |-> AllUp, lastBtnState |-> AllUp, btnPressHandled |-> AllUp,
     lastBtnDebounceTime |-> AllUp, btnDownStart |-> AllUp,
     lastLEDUpdate |-> 0, lastPhaseChange |-> 0,
     currentMode |-> MODE_UNIFIED, inputBrightnessLevel |-> 3,
     targetBrightness |-> brightnessValues[3], actualBrightness |-> brightnessValues[3],
     currentColorIndex |-> 0,
     targetColor |-> [i \in LEDs |-> Black], actualColor |-> [i \in LEDs |-> Black],
     currentRainPhase |-> 0]

PowerOn(stores) ==
    /\ pc = "boot"
    /\ boots = 0
    /\ now = 0
    /\ eeprom \in stores
    /\ btnState = StaticInit.btnState
    /\ lastBtnState = StaticInit.lastBtnState
    /\ btnPressHandled = StaticInit.btnPressHandled
    /\ lastBtnDebounceTime = StaticInit.lastBtnDebounceTime
    /\ btnDownStart = StaticInit.btnDownStart
    /\ lastLEDUpdate = StaticInit.lastLEDUpdate
    /\ lastPhaseChange = StaticInit.lastPhaseChange
    /\ currentMode = StaticInit.currentMode
    /\ inputBrightnessLevel = StaticInit.inputBrightnessLevel
    /\ targetBrightness = StaticInit.targetBrightness
    /\ actualBrightness = StaticInit.actualBrightness
    /\ currentColorIndex = StaticInit.currentColorIndex
    /\ targetColor = StaticInit.targetColor
    /\ actualColor = StaticInit.actualColor
    /\ currentRainPhase = StaticInit.currentRainPhase
    /\ frame = NoCalls
    /\ tickEvents = << >>
    /\ log = << >>
    /\ prevLog = << >>
    /\ held = << >>

Init == PowerOn(InitStores)

InitAnyStore == PowerOn(AnyStores)

(***************************************************************************)
(* setup(): loadState().                                                   *)
(***************************************************************************)
Setup ==
    /\ pc = "boot"
    /\ pc' = "checkButtons"
    /\ currentMode' = loadByte(eeprom[0], currentMode)
    /\ inputBrightnessLevel' = loadByte(eeprom[1], inputBrightnessLevel)
    /\ targetBrightness' \in BrightnessAt(inputBrightnessLevel')
    /\ actualBrightness' = 0
    /\ currentColorIndex' = loadByte(eeprom[2], currentColorIndex)
    /\ actualColor' = [i \in LEDs |-> Black]
    /\ UNCHANGED <<boots, now, eeprom, btnVars, targetColor, lastLEDUpdate, frame,
                   lastPhaseChange, currentRainPhase, tickEvents, log, prevLog, held>>

(***************************************************************************)
(* loop(): checkButtons(), then updatePhase(), then updateLEDs().          *)
(***************************************************************************)
ButtonContext ==
    [btnState |-> btnState, lastBtnState |-> lastBtnState,
     btnPressHandled |-> btnPressHandled,
     lastBtnDebounceTime |-> lastBtnDebounceTime, btnDownStart |-> btnDownStart,
     currentMode |-> currentMode, inputBrightnessLevel |-> inputBrightnessLevel,
     targetBrightness |-> targetBrightness, currentColorIndex |-> currentColorIndex,
     eeprom |-> eeprom, tickEvents |-> << >>, log |-> log,
     prevLog |-> prevLog]

\* how far the clock runs after the latest boot
Horizon == IF boots = 0 THEN MaxTime ELSE MaxRebootTime

\* dt milliseconds have passed since the previous iteration; the pins read r0, r1;
\* the clock stops advancing horizon milliseconds after the instant start
\* milliseconds for which the sketch has been observed since the instant start
Observed(start) == (now - start) % ClockMod

CheckButtonsIn(steps, start, horizon) ==
    /\ pc = "checkButtons"
    /\ \E dt \in steps, r0 \in {0, 1}, r1 \in {0, 1} :
         /\ Observed(start) + dt <= horizon
         /\ now' = (now + dt) % ClockMod
         /\ LET s == checkButtons(ButtonContext, [i \in Btns |-> IF i = 0 THEN r0 ELSE r1], now')
            IN  /\ btnState' = s.btnState
                /\ lastBtnState' = s.lastBtnState
                /\ btnPressHandled' = s.btnPressHandled
                /\ lastBtnDebounceTime' = s.lastBtnDebounceTime
                /\ btnDownStart' = s.btnDownStart
                /\ currentMode' = s.currentMode
                /\ inputBrightnessLevel' = s.inputBrightnessLevel
                /\ targetBrightness' = s.targetBrightness
                /\ currentColorIndex' = s.currentColorIndex
                /\ eeprom' = s.eeprom
                /\ tickEvents' = s.tickEvents
                /\ log' = s.log
                /\ prevLog' = s.prevLog
    /\ pc' = "updatePhase"
    /\ UNCHANGED <<boots, ledVars, lastPhaseChange, currentRainPhase, held>>

CheckButtons == CheckButtonsIn(TimeSteps, 0, Horizon)

UpdatePhase ==
    /\ pc = "updatePhase"
    /\ pc' = "updateLEDs"
    /\ IF phaseDue(currentMode, now, lastPhaseChange)
       THEN /\ lastPhaseChange' = now
            /\ currentRainPhase' = nextRainPhase(currentRainPhase)
       ELSE UNCHANGED <<lastPhaseChange, currentRainPhase>>
    /\ UNCHANGED <<boots, now, eeprom, btnVars, selVars, ledVars, targetBrightness,
                   tickEvents, log, prevLog, held>>

UpdateLEDs ==
    /\ pc = "updateLEDs"
    /\ pc' = "checkButtons"
    /\ IF frameDue(now, lastLEDUpdate)
       THEN \E base \in ColorAt(currentColorIndex), comp \in ComplementaryAt(currentColorIndex) :
              /\ targetColor' = [i \in LEDs |->
                    modeTarget(currentMode, i, currentRainPhase, base, comp, targetColor[i])]
              /\ actualColor' = [i \in LEDs |-> graduateColor(actualColor[i], targetColor'[i])]
              /\ actualBrightness' = graduateBrightness(actualBrightness, targetBrightness)
              /\ frame' = stripCalls(actualColor, targetColor', actualBrightness, targetBrightness)
              /\ lastLEDUpdate' = now
       ELSE /\ frame' = NoCalls
            /\ UNCHANGED <<targetColor, actualColor, actualBrightness, lastLEDUpdate>>
    /\ UNCHANGED <<boots, now, eeprom, btnVars, selVars, targetBrightness,
                   lastPhaseChange, currentRainPhase, tickEvents, log, prevLog, held>>

(***************************************************************************)
(* Power is lost between two iterations of loop() and the sketch restarts: *)
(* RAM is back at the static initialisers, the EEPROM keeps its bytes.     *)
(***************************************************************************)
PowerLoss ==
    /\ pc = "checkButtons"
    /\ boots < MaxBoots
    /\ boots' = boots + 1
    /\ pc' = "boot"
    /\ now' = 0
    /\ held' = <<currentMode, inputBrightnessLevel, currentColorIndex>>
    /\ btnState' = StaticInit.btnState
    /\ lastBtnState' = StaticInit.lastBtnState
    /\ btnPressHandled' = StaticInit.btnPressHandled
    /\ lastBtnDebounceTime' = StaticInit.lastBtnDebounceTime
    /\ btnDownStart' = StaticInit.btnDownStart
    /\ lastLEDUpdate' = StaticInit.lastLEDUpdate
    /\ lastPhaseChange' = StaticInit.lastPhaseChange
    /\ currentMode' = StaticInit.currentMode
    /\ inputBrightnessLevel' = StaticInit.inputBrightnessLevel
    /\ targetBrightness' = StaticInit.targetBrightness
    /\ actualBrightness' = StaticInit.actualBrightness
    /\ currentColorIndex' = StaticInit.currentColorIndex
    /\ targetColor' = StaticInit.targetColor
    /\ actualColor' = StaticInit.actualColor
    /\ currentRainPhase' = StaticInit.currentRainPhase
    /\ frame' = NoCalls
    /\ tickEvents' = << >>
    /\ log' = << >>
    /\ prevLog' = << >>
    /\ UNCHANGED eeprom

Next == Setup \/ CheckButtons \/ UpdatePhase \/ UpdateLEDs \/ PowerLoss

Spec == Init /\ [][Next]_vars

SpecAnyStore == InitAnyStore /\ [][Next]_vars

(***************************************************************************)
(* The graduator on its own: every pair of an actual and a target channel  *)
(* value, and of an actual and a target brightness.                        *)
(***************************************************************************)
ChannelValues == 0 .. 255

InitPairs(start) ==
    /\ pc = start
    /\ boots = 0
    /\ now = 0
    /\ eeprom = Store(255, 255, 255)
    /\ btnState = StaticInit.btnState
    /\ lastBtnState = StaticInit.lastBtnState
    /\ btnPressHandled = StaticInit.btnPressHandled
    /\ lastBtnDebounceTime = StaticInit.lastBtnDebounceTime
    /\ btnDownStart = StaticInit.btnDownStart
    /\ lastLEDUpdate = StaticInit.lastLEDUpdate
    /\ lastPhaseChange = StaticInit.lastPhaseChange
    /\ currentMode = StaticInit.currentMode
    /\ inputBrightnessLevel = StaticInit.inputBrightnessLevel
    /\ currentColorIndex = StaticInit.currentColorIndex
    /\ currentRainPhase = StaticInit.currentRainPhase
    /\ \E a \in ChannelValues, t \in ChannelValues :
         /\ actualColor = [i \in LEDs |-> IF i % 2 = 0 THEN RGB(a, t, a) ELSE RGB(t, t, t)]
         /\ targetColor = [i \in LEDs |-> RGB(t, t, t)]
         /\ actualBrightness = a
         /\ targetBrightness = t
    /\ frame = NoCalls
    /\ tickEvents = << >>
    /\ log = << >>
    /\ prevLog = << >>
    /\ held = << >>

InitGrad == InitPairs("graduate")

\* the second half of an eligible updateLEDs(), with the targets as they stand
GraduateStep ==
    /\ pc = "graduate"
    /\ actualColor' = [i \in LEDs |-> graduateColor(actualColor[i], targetColor[i])]
    /\ actualBrightness' = graduateBrightness(actualBrightness, targetBrightness)
    /\ frame' = stripCalls(actualColor, targetColor, actualBrightness, targetBrightness)
    /\ UNCHANGED <<pc, boots, now, eeprom, btnVars, selVars, targetColor, lastLEDUpdate,
                   targetBrightness, lastPhaseChange, currentRainPhase, tickEvents, log, prevLog, held>>

NextGrad == GraduateStep

SpecGrad == InitGrad /\ [][NextGrad]_vars

(***************************************************************************)
(* Properties.                                                             *)
(***************************************************************************)
(***************************************************************************)
(* The sketch after a long run, shortly before millis() wraps: the LEDs    *)
(* have converged, button B is up and button A is up or held down, the     *)
(* last raw change was 200 ms ago (accepted 51 ms later) and the last      *)
(* phase change 950 ms ago.                                                *)
(***************************************************************************)
RunStart == ClockMod - WrapLead

RunningSelections == {<<MODE_UNIFIED, 3, 0>>, <<MODE_RAIN, 4, 7>>}

\* the rain phase the long run has left; it shows only in Rain mode
RunningPhases(mode) == IF mode = MODE_RAIN THEN 0 .. 2 ELSE {0}

InitRunningWith(aState) ==
    /\ pc = "checkButtons"
    /\ boots = 0
    /\ now = RunStart
    /\ \E sel \in RunningSelections : \E phase \in RunningPhases(sel[1]) :
         /\ currentRainPhase = phase
         /\ currentMode = sel[1]
         /\ inputBrightnessLevel = sel[2]
         /\ currentColorIndex = sel[3]
         /\ eeprom = Store(sel[1], sel[2], sel[3])
         /\ targetBrightness = brightnessValues[sel[2]]
         /\ actualBrightness = brightnessValues[sel[2]]
         /\ targetColor = [i \in LEDs |->
                modeTarget(sel[1], i, phase, colors[sel[3]], complementary_colors[sel[3]], Black)]
         /\ actualColor = targetColor
    /\ btnState = [i \in Btns |-> IF i = 0 THEN aState ELSE 0]
    /\ lastBtnState = btnState
    /\ btnPressHandled = AllUp
    /\ lastBtnDebounceTime = [i \in Btns |-> (RunStart - 200) % ClockMod]
    /\ btnDownStart = [i \in Btns |->
            IF i = 0 /\ aState = 1 THEN (RunStart - 149) % ClockMod ELSE 0]
    /\ lastLEDUpdate = RunStart
    /\ lastPhaseChange = (RunStart - 950) % ClockMod
    /\ frame = NoCalls
    /\ tickEvents = << >>
    /\ log = IF aState = 1 THEN <<"A_DOWN">> ELSE << >>
    /\ prevLog = << >>
    /\ held = << >>

InitRunning == InitRunningWith(0)

CheckButtonsRunning == CheckButtonsIn(TimeSteps, RunStart, MaxTime)

NextRunning == CheckButtonsRunning \/ UpdatePhase \/ UpdateLEDs

SpecRunning == InitRunning /\ [][NextRunning]_vars

(***************************************************************************)
(* halfwayBetweenColors() on its own: every pair of channel values.        *)
(***************************************************************************)
InitBlend == InitPairs("blend")

BlendStep ==
    /\ pc = "blend"
    /\ pc' = "blended"
    /\ targetColor' = [i \in LEDs |-> halfwayBetweenColors(actualColor[i], targetColor[i])]
    /\ UNCHANGED <<boots, now, eeprom, btnVars, selVars, actualColor, actualBrightness,
                   lastLEDUpdate, frame, targetBrightness, lastPhaseChange,
                   currentRainPhase, tickEvents, log, prevLog, held>>

NextBlend == BlendStep

SpecBlend == InitBlend /\ [][NextBlend]_vars

(***************************************************************************)
(* The same long-running sketch with button A held down and the iterations *)
(* of loop() about one frame interval apart.                               *)
(***************************************************************************)
InitHeld == InitRunningWith(1)

CheckButtonsFrame == CheckButtonsIn(FrameSteps, RunStart, MaxFrameTime)

NextFrame == CheckButtonsFrame \/ UpdatePhase \/ UpdateLEDs

SpecFrame == InitHeld /\ [][NextFrame]_vars

(***************************************************************************)
(* The sketch from power-on, never losing power, with the iterations of    *)
(* loop() either back to back or one debounce interval apart: long enough  *)
(* for six accepted transitions.                                           *)
(***************************************************************************)
CheckButtonsCombo == CheckButtonsIn(ComboSteps, 0, MaxComboTime)

NextCombo == Setup \/ CheckButtonsCombo \/ UpdatePhase \/ UpdateLEDs

SpecCombo == Init /\ [][NextCombo]_vars

Selection == <<currentMode, inputBrightnessLevel, currentColorIndex>>
ButtonPass == pc = "checkButtons" /\ pc' = "updatePhase"

\* C1: hold A, tap B while A is debounced-down, release A: over the whole
\* episode exactly one IncreaseBrightness is emitted and no other action,
\* although A's up transition is accepted after B's.
C1_HoldATapB ==
    Transitions(log) = <<"A_DOWN", "B_DOWN", "B_UP", "A_UP">>
        => log = <<"A_DOWN", "B_DOWN", "B_UP", "IncreaseBrightness", "A_UP">>

C1_Witness ==
    /\ Transitions(log) = <<"A_DOWN", "B_DOWN", "B_UP", "A_UP">>
    /\ btnState = AllUp
    /\ btnPressHandled[0] = 1

\* C2: a press and release of A alone, from both buttons up, emits exactly one
\* CycleColor and neither CycleMode nor IncreaseBrightness.
C2_TapA ==
    Transitions(log) = <<"A_DOWN", "A_UP">> => log = <<"A_DOWN", "A_UP", "CycleColor">>

C2_Witness ==
    /\ Transitions(log) = <<"A_DOWN", "A_UP">>
    /\ btnState = AllUp
    /\ lastBtnState[1] = 0

\* C3: on an accepted up transition the emitted action is fixed by the other
\* button's debounced state and the consumed flags: A up with B up and A not
\* consumed gives CycleColor; B up with A up gives CycleMode; B up with A down
\* gives IncreaseBrightness and sets A's consumed flag.
C3_Decode ==
    [][ButtonPass =>
        /\ (btnState[0] = 1 /\ btnState'[0] = 0 /\ btnState[1] = 0 /\ btnPressHandled[0] = 0)
              => Actions(tickEvents') = <<"CycleColor">>
        /\ (btnState[1] = 1 /\ btnState'[1] = 0 /\ btnState'[0] = 0 /\ btnPressHandled[1] = 0)
              => Actions(tickEvents') = <<"CycleMode">>
        /\ (btnState[1] = 1 /\ btnState'[1] = 0 /\ btnState'[0] = 1 /\ btnPressHandled[1] = 0)
              => /\ Actions(tickEvents') = <<"IncreaseBrightness">>
                 /\ btnPressHandled'[0] = 1]_vars

C3_Witness ==
    /\ tickEvents = <<"B_UP", "IncreaseBrightness">>
    /\ btnState[0] = 1
    /\ btnPressHandled[0] = 1

\* C4: one pass of checkButtons over both buttons emits at most one action,
\* also when both buttons have a transition accepted in that pass.
C4_OneActionPerTick == Len(Actions(tickEvents)) <= 1

C4_Witness ==
    /\ Len(Transitions(tickEvents)) = 2
    /\ Len(Actions(tickEvents)) = 1

\* C5: after initialisation, whatever the three store bytes were, mode is in
\* {0,1,2}, brightnessLevel in 0..4 and colorIndex in 0..7.
C5_SelectionInRange ==
    pc # "boot" =>
        /\ currentMode \in 0 .. (MODECOUNT - 1)
        /\ inputBrightnessLevel \in 0 .. 4
        /\ currentColorIndex \in 0 .. (NUM_COLORS - 1)

RECURSIVE CycleColorTimes(_, _)
CycleColorTimes(n, index) ==
    IF n = 0 THEN index ELSE nextColorIndex(CycleColorTimes(n - 1, index))
RECURSIVE CycleModeTimes(_, _)
CycleModeTimes(n, mode) ==
    IF n = 0 THEN mode ELSE nextMode(CycleModeTimes(n - 1, mode))
RECURSIVE IncBrightnessTimes(_, _)
IncBrightnessTimes(n, level) ==
    IF n = 0 THEN level ELSE nextBrightness(IncBrightnessTimes(n - 1, level))

\* C6: from an in-range selection CycleColor sets colorIndex to
\* (colorIndex+1) mod 8, CycleMode sets mode to (mode+1) mod 3 and
\* IncreaseBrightness sets brightnessLevel to (brightnessLevel+1) mod 5, so 8,
\* 3 and 5 repetitions give the field its value back.
C6_Cyclic ==
    [][(/\ ButtonPass
        /\ currentMode \in 0 .. 2
        /\ inputBrightnessLevel \in 0 .. 4
        /\ currentColorIndex \in 0 .. 7) =>
        /\ Actions(tickEvents') = <<"CycleColor">>
              => currentColorIndex' = (currentColorIndex + 1) % 8
        /\ Actions(tickEvents') = <<"CycleMode">>
              => currentMode' = (currentMode + 1) % 3
        /\ Actions(tickEvents') = <<"IncreaseBrightness">>
              => inputBrightnessLevel' = (inputBrightnessLevel + 1) % 5
        /\ CycleColorTimes(8, currentColorIndex) = currentColorIndex
        /\ CycleModeTimes(3, currentMode) = currentMode
        /\ IncBrightnessTimes(5, inputBrightnessLevel) = inputBrightnessLevel]_vars

C6_Witness ==
    /\ Actions(tickEvents) = <<"CycleColor">>
    /\ currentColorIndex = 0

\* C7: at the end of a tick in which an action was emitted the store holds
\* mode at address 0, brightnessLevel at 1 and colorIndex at 2.
C7_SavedInTick ==
    Actions(tickEvents) # << >> =>
        eeprom = Store(currentMode, inputBrightnessLevel, currentColorIndex)

C7_Witness ==
    /\ Actions(tickEvents) = <<"CycleColor">>
    /\ pc = "checkButtons"
    /\ eeprom[2] = currentColorIndex

\* C8: loadState decides each field on its own byte: the sentinel 255 keeps the
\* compiled-in default (Unified, 3, 0), any other byte is adopted; the store
\* (255, 2, 6) gives the default mode, brightnessLevel 2 and colorIndex 6.
C8_LoadState ==
    [][(pc = "boot" /\ pc' # "boot") =>
        /\ currentMode' = (IF eeprom[0] = 255 THEN MODE_UNIFIED ELSE eeprom[0])
        /\ inputBrightnessLevel' = (IF eeprom[1] = 255 THEN 3 ELSE eeprom[1])
        /\ currentColorIndex' = (IF eeprom[2] = 255 THEN 0 ELSE eeprom[2])
        /\ eeprom = Store(255, 2, 6) => Selection' = <<MODE_UNIFIED, 2, 6>>]_vars

C8_Witness ==
    /\ pc = "checkButtons"
    /\ now = 0
    /\ tickEvents = << >>
    /\ eeprom = Store(255, 2, 6)
    /\ Selection = <<MODE_UNIFIED, 2, 6>>

\* C9: after a power loss between two ticks, the restart restores the mode,
\* brightnessLevel and colorIndex held just before the loss.
C9_SurvivesPowerCycle ==
    [][(pc = "boot" /\ pc' = "checkButtons" /\ held # << >>) => Selection' = held]_vars

C9_Witness ==
    /\ boots = 1
    /\ pc = "checkButtons"
    /\ held = <<MODE_COMPLEMENTARY, 3, 0>>
    /\ Selection = held

Abs(x) == IF x < 0 THEN -x ELSE x

\* one channel after one step: a' for actual a and target t
ChannelStepped(a, t, a2) ==
    IF a = t THEN a2 = a
    ELSE /\ Abs(a2 - t) = Abs(a - t) - 1
         /\ IF a < t THEN a < a2 /\ a2 <= t ELSE t <= a2 /\ a2 < a

\* C10: one eligible graduator step moves every channel that differs from its
\* target exactly one unit toward it, never past it, and leaves an equal
\* channel unchanged.
C10_GraduateStep ==
    [][(pc = "graduate" \/ (pc = "updateLEDs" /\ frameDue(now, lastLEDUpdate))) =>
        \A i \in LEDs :
            /\ ChannelStepped(actualColor[i].r, targetColor'[i].r, actualColor'[i].r)
            /\ ChannelStepped(actualColor[i].g, targetColor'[i].g, actualColor'[i].g)
            /\ ChannelStepped(actualColor[i].b, targetColor'[i].b, actualColor'[i].b)]_vars

C10_Witness ==
    /\ pc = "graduate"
    /\ frame.pixels # {}
    /\ actualColor[0] = RGB(255, 255, 255)
    /\ targetColor[0] = RGB(255, 255, 255)

\* C11: show() is called in a tick only if some LED channel or the brightness
\* differed from its target in that tick; when every actual colour and the
\* actual brightness equal their targets nothing is staged and nothing is
\* committed.
C11_CommitOnlyIfDirty ==
    [][(pc = "updateLEDs" \/ pc = "graduate") =>
        /\ frame'.show =>
              \/ \E i \in LEDs : actualColor[i] # targetColor'[i]
              \/ actualBrightness # targetBrightness
        /\ ((\A i \in LEDs : actualColor[i] = targetColor'[i])
                /\ actualBrightness = targetBrightness)
              => /\ frame'.pixels = {}
                 /\ ~frame'.brightness
                 /\ ~frame'.show
                 /\ actualColor' = actualColor
                 /\ actualBrightness' = actualBrightness]_vars

\* an eligible frame has run on converged LEDs and made no strip call
C11_Witness ==
    /\ pc = "checkButtons"
    /\ now # RunStart
    /\ lastLEDUpdate = now
    /\ actualColor = targetColor
    /\ actualBrightness = targetBrightness
    /\ frame = NoCalls

Min(x, y) == IF x <= y THEN x ELSE y
Max(x, y) == IF x >= y THEN x ELSE y

\* the midpoint of two channel values, rounded toward the lower one
MidLow(x, y) == Min(x, y) + ((Max(x, y) - Min(x, y)) \div 2)
BlendOf(A, B) == [r |-> MidLow(A.r, B.r), g |-> MidLow(A.g, B.g), b |-> MidLow(A.b, B.b)]

\* an updateLEDs() that finds more than the frame interval elapsed
EligibleFrame == pc = "updateLEDs" /\ Elapsed(now, lastLEDUpdate) >= 9

\* C12: in Rain mode an eligible tick gives the LED with phase id P the base
\* colour if P = currentRainPhase, the halfway blend of base and complementary
\* colour if P = (currentRainPhase+1) mod 3 and the complementary colour if
\* P = (currentRainPhase+2) mod 3; every LED is in exactly one of the cases.
C12_RainTargets ==
    [][(EligibleFrame /\ currentMode = MODE_RAIN /\ currentColorIndex \in 0 .. 7) =>
        \A i \in LEDs :
            LET P == rain_phase_LED_map[i]
                base == colors[currentColorIndex]
                comp == complementary_colors[currentColorIndex]
            IN  /\ P = currentRainPhase => targetColor'[i] = base
                /\ P = (currentRainPhase + 1) % 3 => targetColor'[i] = BlendOf(base, comp)
                /\ P = (currentRainPhase + 2) % 3 => targetColor'[i] = comp
                /\ Cardinality({k \in 0 .. 2 : P = (currentRainPhase + k) % 3}) = 1]_vars

\* phase 2 was reached by updatePhase() and LED 0 (phase id 0) shows the blend
C12_Witness ==
    /\ pc = "checkButtons"
    /\ currentMode = MODE_RAIN
    /\ currentRainPhase = 2
    /\ lastPhaseChange # (RunStart - 950) % ClockMod
    /\ lastLEDUpdate = now
    /\ targetColor[0] = RGB(255, 93, 20)
    /\ targetColor[1] = colors[7]
    /\ targetColor[2] = colors[1]

\* one blended channel c of colours A and B
ChannelBlended(x, y, c) ==
    /\ c = Min(x, y) + (Abs(x - y) \div 2)
    /\ Min(x, y) <= c /\ c <= Max(x, y)
    /\ (x = 255 /\ y = 0) => c = 127

\* C13: every channel of the halfway blend is min(A,B) + floor(|A-B| / 2),
\* computed per channel and the same for both orders of the arguments; it
\* rounds toward the lower value (255 and 0 give 127) and stays between the
\* two values.
C13_HalfwayBlend ==
    [][pc = "blend" =>
        \A i \in LEDs :
            /\ ChannelBlended(actualColor[i].r, targetColor[i].r, targetColor'[i].r)
            /\ ChannelBlended(actualColor[i].g, targetColor[i].g, targetColor'[i].g)
            /\ ChannelBlended(actualColor[i].b, targetColor[i].b, targetColor'[i].b)
            /\ halfwayBetweenColors(targetColor[i], actualColor[i]) = targetColor'[i]]_vars

C13_Witness ==
    /\ pc = "blended"
    /\ actualColor[0] = RGB(255, 0, 255)
    /\ targetColor[0] = RGB(127, 0, 127)

\* button i in one pass, told by its own channel alone; the reading of the
\* pass is lastBtnState'[i], and since is the time of the last raw change
DebouncedAlone(i, since) ==
    LET reading == lastBtnState'[i]
        accept == /\ reading # btnState[i]
                  /\ reading = lastBtnState[i]
                  /\ since > 50
    IN  /\ lastBtnDebounceTime'[i] =
              (IF reading # lastBtnState[i] THEN now' ELSE lastBtnDebounceTime[i])
        /\ btnState'[i] = (IF accept THEN reading ELSE btnState[i])
        /\ ~accept => BtnEvent(i, reading) \notin
                          {tickEvents'[k] : k \in 1 .. Len(tickEvents')}

\* C14: a debounced state changes in a tick only if the raw reading differs
\* from it and more than 50 ms have passed since the last tick at which the
\* sampled raw reading changed, so a level sampled for 50 ms or less gives no
\* transition; each button's timer and debounced state follow from its own
\* readings alone.
C14_Debounce ==
    [][ButtonPass =>
        \A i \in Btns : DebouncedAlone(i, now' - lastBtnDebounceTime[i])]_vars

\* A's raw level has been down for exactly 50 ms and is not accepted
C14_Witness ==
    /\ pc = "updatePhase"
    /\ lastBtnState[0] = 1
    /\ btnState[0] = 0
    /\ now - lastBtnDebounceTime[0] = 50
    /\ tickEvents = << >>

\* C15: an updateLEDs() that finds no more than the frame interval elapsed
\* (fewer than 9 whole milliseconds) changes no target, no actual colour, no
\* brightness and not lastLEDUpdate and makes no strip call; what
\* checkButtons() did in the same tick stands.
C15_FrameLimit ==
    [][(pc = "updateLEDs" /\ Elapsed(now, lastLEDUpdate) < 9) =>
        /\ UNCHANGED <<targetColor, actualColor, actualBrightness, lastLEDUpdate>>
        /\ frame' = NoCalls
        /\ UNCHANGED <<tickEvents, eeprom, selVars, targetBrightness>>]_vars

\* a tick 8 ms after the last frame in which A's release was accepted:
\* CycleColor was emitted and saved, no frame was drawn
C15_Witness ==
    /\ pc = "checkButtons"
    /\ Elapsed(now, lastLEDUpdate) = 8
    /\ Actions(tickEvents) = <<"CycleColor">>
    /\ eeprom[2] = currentColorIndex
    /\ frame = NoCalls
    /\ actualColor # targetColor

MaxOf(S) == CHOOSE x \in S : \A y \in S : y <= x

\* the largest distance of any LED channel, or of the brightness, from its target
Gap(actual, target, brightness, brightnessTarget) ==
    MaxOf({Abs(actual[i].r - target[i].r) : i \in LEDs}
          \cup {Abs(actual[i].g - target[i].g) : i \in LEDs}
          \cup {Abs(actual[i].b - target[i].b) : i \in LEDs}
          \cup {Abs(brightness - brightnessTarget)})

\* C16: with the targets fixed every LED channel and the brightness equal their
\* targets after at most 255 eligible frames and stay there without further
\* commits: the largest distance from a target is at most 255, every eligible
\* frame lowers it by exactly one, and at distance 0 a frame changes nothing
\* and commits nothing.
C16_Converges ==
    [][(pc = "graduate" \/ EligibleFrame) =>
        LET before == Gap(actualColor, targetColor', actualBrightness, targetBrightness)
            after == Gap(actualColor', targetColor', actualBrightness', targetBrightness)
        IN  /\ before <= 255
            /\ before > 0 => after = before - 1
            /\ before = 0 => /\ after = 0
                             /\ actualColor' = actualColor
                             /\ actualBrightness' = actualBrightness
                             /\ ~frame'.show]_vars

\* the frame that closed the last unit of distance was committed
C16_Witness ==
    /\ pc = "graduate"
    /\ frame.show
    /\ Gap(actualColor, targetColor, actualBrightness, targetBrightness) = 0
    /\ targetBrightness = 255

\* a clock value as milliseconds before (negative) or after the wrap of millis()
TrueTime(t) == IF t >= ClockMod \div 2 THEN t - ClockMod ELSE t

\* milliseconds that have really passed between two clock values near the wrap
TrueElapsed(t, since) == TrueTime(t) - TrueTime(since)

\* C17: currentRainPhase and lastPhaseChange change only in updatePhase(), in
\* Rain mode, when more than 1000 ms have passed since lastPhaseChange; the
\* phase then advances by one modulo 3 and lastPhaseChange becomes the current
\* time, so the phase stays in {0,1,2} and two advances are more than 1000 ms
\* apart; in the other modes neither is modified.
C17_RainPhase ==
    [][LET due == /\ pc = "updatePhase"
                  /\ currentMode = MODE_RAIN
                  /\ TrueElapsed(now, lastPhaseChange) > 1000
       IN  /\ currentRainPhase \in 0 .. 2
           /\ currentRainPhase' \in 0 .. 2
           /\ due => /\ currentRainPhase' = (currentRainPhase + 1) % 3
                     /\ lastPhaseChange' = now
           /\ ~due => UNCHANGED <<currentRainPhase, lastPhaseChange>>]_vars

\* the phase has just wrapped from 2 to 0
C17_Witness ==
    /\ pc = "updateLEDs"
    /\ currentMode = MODE_RAIN
    /\ lastPhaseChange = now
    /\ currentRainPhase = 0

\* C18: the debounce, rain-phase and frame-interval checks measure an interval
\* that straddles the wrap of millis() at its true length: a raw change is
\* accepted at the first tick more than 50 ms after it and not before, a phase
\* advances exactly when more than 1000 ms have really passed, and a frame is
\* drawn exactly when more than the frame interval has really passed.
C18_WrapTolerant ==
    [][/\ ButtonPass =>
            \A i \in Btns : DebouncedAlone(i, TrueElapsed(now', lastBtnDebounceTime[i]))
       /\ (pc = "updatePhase" /\ currentMode = MODE_RAIN) =>
            (currentRainPhase' # currentRainPhase) = (TrueElapsed(now, lastPhaseChange) > 1000)
       /\ pc = "updateLEDs" =>
            IF TrueElapsed(now, lastLEDUpdate) >= 9
            THEN lastLEDUpdate' = now
            ELSE UNCHANGED <<lastLEDUpdate, actualColor, actualBrightness>>]_vars

\* A's raw change was recorded before the wrap and accepted 51 ms later, after it
C18_Witness ==
    /\ pc = "updatePhase"
    /\ tickEvents = <<"A_DOWN">>
    /\ lastBtnDebounceTime[0] >= ClockMod \div 2
    /\ now < ClockMod \div 2
    /\ TrueElapsed(now, lastBtnDebounceTime[0]) = 51

Released(i) == btnState[i] = 1 /\ btnState'[i] = 0

\* C19: after startup the three selection fields change only in a tick that
\* emits an action, and each action changes its own field only; down
\* transitions, a release of A while B is debounced-down, a suppressed release
\* of A, updatePhase() and updateLEDs() leave the fields and the store alone.
C19_OnlyActionsChange ==
    [][(pc # "boot" /\ pc' # "boot") =>
        /\ pc \in {"updatePhase", "updateLEDs"} => UNCHANGED <<selVars, eeprom>>
        /\ ButtonPass =>
            /\ Actions(tickEvents') = << >> => UNCHANGED <<selVars, eeprom>>
            /\ Actions(tickEvents') = <<"CycleColor">> =>
                  /\ UNCHANGED <<currentMode, inputBrightnessLevel>>
                  /\ currentColorIndex' # currentColorIndex
            /\ Actions(tickEvents') = <<"CycleMode">> =>
                  /\ UNCHANGED <<currentColorIndex, inputBrightnessLevel>>
                  /\ currentMode' # currentMode
            /\ Actions(tickEvents') = <<"IncreaseBrightness">> =>
                  /\ UNCHANGED <<currentMode, currentColorIndex>>
                  /\ inputBrightnessLevel' # inputBrightnessLevel
            /\ (~Released(0) /\ ~Released(1)) => UNCHANGED <<selVars, eeprom>>
            /\ (Released(0) /\ ~Released(1) /\ (btnState[1] = 1 \/ btnPressHandled[0] = 1))
                  => UNCHANGED <<selVars, eeprom>>]_vars

\* A's release after a combo has just been accepted and suppressed
C19_Witness ==
    /\ pc = "updatePhase"
    /\ tickEvents = <<"A_UP">>
    /\ btnPressHandled[0] = 1
    /\ btnState = AllUp
    /\ eeprom = Store(currentMode, inputBrightnessLevel, currentColorIndex)

ComboLog == <<"A_DOWN", "B_DOWN", "B_UP", "IncreaseBrightness", "A_UP">>
Pressed(i) == btnState[i] = 0 /\ btnState'[i] = 1

\* C20: the suppression of A's release lasts for one press of A only: an
\* accepted A-down clears A's consumed flag, the flag of a held A is set only
\* by an IncreaseBrightness of that press, and the solo tap of A that follows
\* a hold-A / tap-B / release-A episode emits exactly one CycleColor.
C20_SuppressionOnePress ==
    [][ButtonPass =>
        /\ (Pressed(0) /\ ~Released(1)) => btnPressHandled'[0] = 0
        /\ (btnState'[0] = 1 /\ btnPressHandled'[0] = 1) =>
              \/ btnState[0] = 1 /\ btnPressHandled[0] = 1
              \/ \E k \in DOMAIN tickEvents' : tickEvents'[k] = "IncreaseBrightness"
        /\ (prevLog' = ComboLog /\ Transitions(log') = <<"A_DOWN", "A_UP">>)
              => log' = <<"A_DOWN", "A_UP", "CycleColor">>
        /\ (prevLog = ComboLog /\ log = <<"A_DOWN">> /\ Released(0))
              => /\ Actions(tickEvents') = <<"CycleColor">>
                 /\ currentColorIndex' = nextColorIndex(currentColorIndex)]_vars

\* the solo tap of A after the combo has just been decoded
C20_Witness ==
    /\ pc = "updatePhase"
    /\ prevLog = ComboLog
    /\ log = <<"A_DOWN", "A_UP", "CycleColor">>
    /\ tickEvents = <<"A_UP", "CycleColor">>
    /\ btnState = AllUp
    /\ btnPressHandled[0] = 0

====
